---- MODULE Spec2Model ----
(***************************************************************************)
(* Model of data_analysis_mcp.py: a registry of named SQLite stores        *)
(* (_db_connections), file ingestion (import_file), the query gateway      *)
(* (execute_sql), the analysis engine (generate_analysis_report), export   *)
(* and maintenance (clean_database).                                       *)
(*                                                                         *)
(* Text (file names, table names, SQL) is a sequence of one-character      *)
(* strings, so that strip/upper/startswith/substring tests and f-string    *)
(* interpolation are computed character by character as in the code.       *)
(* A DataFrame is [columns, rows]; a cell is <<"n", i>> (number i),         *)
(* <<"s", i>> (the i-th text value) or NULL.                                *)
(***************************************************************************)
EXTENDS Integers, Sequences, FiniteSets, TLC

VARIABLES
    db_connections, \* _db_connections: store name -> [catalog, data, tables]
    fs,             \* the files import_file can be pointed at (never written)
    call,           \* the last tool call: its name and arguments
    result,         \* the value returned by the last tool call
    executed,       \* SQL texts the last call handed to pd.read_sql_query
    read_log        \* encodings the last call passed to pd.read_csv, in order

vars == <<db_connections, fs, call, result, executed, read_log>>

----------------------------------------------------------------------------
(* Bounds of the model *)

\* largest `limit` argument tried with execute_sql
MaxLimit == 3
\* longest generated table of the analysis specification
MaxRows == 3

----------------------------------------------------------------------------
(* Characters and Python str methods *)

LowerLetters ==
    <<"a","b","c","d","e","f","g","h","i","j","k","l","m",
      "n","o","p","q","r","s","t","u","v","w","x","y","z">>
UpperLetters ==
    <<"A","B","C","D","E","F","G","H","I","J","K","L","M",
      "N","O","P","Q","R","S","T","U","V","W","X","Y","Z">>
Digits == <<"0","1","2","3","4","5","6","7","8","9">>
Whitespace == {" ", "\t", "\n"}

Range(s) == {s[i] : i \in DOMAIN s}
SetMin(S) == CHOOSE x \in S : \A y \in S : x <= y
SetMax(S) == CHOOSE x \in S : \A y \in S : x >= y

IndexIn(c, s) == CHOOSE i \in DOMAIN s : s[i] = c

\* str.upper() / str.lower() on one character
ToUpper == [c \in Range(LowerLetters) |-> UpperLetters[IndexIn(c, LowerLetters)]]
ToLower == [c \in Range(UpperLetters) |-> LowerLetters[IndexIn(c, UpperLetters)]]
UpChar(c) == IF c \in DOMAIN ToUpper THEN ToUpper[c] ELSE c
LowChar(c) == IF c \in DOMAIN ToLower THEN ToLower[c] ELSE c

upper(s) == [i \in 1..Len(s) |-> UpChar(s[i])]
lower(s) == [i \in 1..Len(s) |-> LowChar(s[i])]

\* str.strip(): drop leading and trailing whitespace
strip(s) ==
    LET keep == {i \in 1..Len(s) : s[i] \notin Whitespace}
    IN  IF keep = {} THEN <<>> ELSE SubSeq(s, SetMin(keep), SetMax(keep))

\* str.startswith(p)
startswith(s, p) == Len(s) >= Len(p) /\ SubSeq(s, 1, Len(p)) = p

\* `p in s` for strings
contains(s, p) == \E i \in 1..(Len(s) - Len(p) + 1) : SubSeq(s, i, i + Len(p) - 1) = p

\* str.replace(a, b) for one-character a and b
replace(s, a, b) == [i \in 1..Len(s) |-> IF s[i] = a THEN b ELSE s[i]]

\* f"{n}" for a non-negative integer
RECURSIVE IntToChars(_)
IntToChars(n) ==
    IF n < 10 THEN <<Digits[n + 1]>>
    ELSE IntToChars(n \div 10) \o <<Digits[(n % 10) + 1]>>

DigitValue == [c \in Range(Digits) |-> IndexIn(c, Digits) - 1]
IsNumeral(w) == Len(w) > 0 /\ \A i \in 1..Len(w) : w[i] \in DOMAIN DigitValue

RECURSIVE CharsToInt(_)
CharsToInt(w) ==
    IF Len(w) = 0 THEN 0
    ELSE 10 * CharsToInt(SubSeq(w, 1, Len(w) - 1)) + DigitValue[w[Len(w)]]

\* the whitespace-separated words of a text
RECURSIVE Words(_)
Words(s) ==
    LET t == strip(s)
        ws == {i \in 1..Len(t) : t[i] \in Whitespace}
    IN  IF Len(t) = 0 THEN <<>>
        ELSE IF ws = {} THEN <<t>>
        ELSE <<SubSeq(t, 1, SetMin(ws) - 1)>> \o Words(SubSeq(t, SetMin(ws) + 1, Len(t)))

RECURSIVE Join(_)
Join(ws) ==
    IF Len(ws) = 0 THEN <<>>
    ELSE IF Len(ws) = 1 THEN ws[1]
    ELSE ws[1] \o <<" ">> \o Join(Tail(ws))

----------------------------------------------------------------------------
(* SQL words *)

kwSELECT == <<"S","E","L","E","C","T">>
kwWITH == <<"W","I","T","H">>
kwFROM == <<"F","R","O","M">>
kwLIMIT == <<"L","I","M","I","T">>
kwAS == <<"A","S">>
kwDROP == <<"D","R","O","P">>
kwTABLE == <<"T","A","B","L","E">>
kwIF == <<"I","F">>
kwEXISTS == <<"E","X","I","S","T","S">>
kwDELETE == <<"D","E","L","E","T","E">>
kwINSERT == <<"I","N","S","E","R","T">>
kwINTO == <<"I","N","T","O">>
kwVALUES == <<"V","A","L","U","E","S">>
kwUPDATE == <<"U","P","D","A","T","E">>
kwREPLACE == <<"R","E","P","L","A","C","E">>
kwORDER == <<"O","R","D","E","R">>
symStar == <<"*">>
symOpen == <<"(">>
symClose == <<")">>
numOne == <<"1">>

\* words SQLite refuses as an unquoted identifier
ReservedWords ==
    {kwSELECT, kwFROM, kwLIMIT, kwAS, kwDROP, kwTABLE, kwIF, kwEXISTS, kwDELETE,
     kwINSERT, kwINTO, kwVALUES, kwUPDATE, kwORDER}

IdentStart == Range(LowerLetters) \cup Range(UpperLetters) \cup {"_"}
IdentChars == IdentStart \cup Range(Digits)

\* a word the SQL tokenizer reads as one plain identifier
BareIdentifier(w) ==
    /\ Len(w) > 0
    /\ w[1] \in IdentStart
    /\ \A i \in 1..Len(w) : w[i] \in IdentChars
    /\ upper(w) \notin ReservedWords

----------------------------------------------------------------------------
(* DataFrames *)

NULL == <<"null", 0>>
Num(i) == <<"n", i>>
Txt(i) == <<"s", i>>
IsNum(c) == c[1] = "n"
IsNull(c) == c[1] = "null"

Column(df, j) == [i \in 1..Len(df.rows) |-> df.rows[i][j]]

\* dtype pandas gives a column built from the rows a cursor returned
SqlDtype(col) ==
    IF Len(col) > 0 /\ \A i \in 1..Len(col) : IsNum(col[i]) THEN "int64"
    ELSE IF /\ \E i \in 1..Len(col) : IsNum(col[i])
            /\ \A i \in 1..Len(col) : IsNum(col[i]) \/ IsNull(col[i]) THEN "float64"
    ELSE "object"

\* dtype pd.read_csv / read_json give a column parsed from a file
FileDtype(col) ==
    IF Len(col) > 0 /\ \A i \in 1..Len(col) : IsNum(col[i]) THEN "int64"
    ELSE IF Len(col) > 0 /\ \A i \in 1..Len(col) : IsNum(col[i]) \/ IsNull(col[i])
         THEN "float64"
    ELSE "object"

NumericDtypes == {"int64", "float64"}

\* df.select_dtypes(include=['number']).columns, as column positions
NumericCols(df) ==
    {j \in 1..Len(df.columns) : SqlDtype(Column(df, j)) \in NumericDtypes}

\* the positions of a set of integers in increasing order
RECURSIVE Sorted(_)
Sorted(S) == IF S = {} THEN <<>> ELSE <<SetMin(S)>> \o Sorted(S \ {SetMin(S)})

Head_n(s, n) == SubSeq(s, 1, IF n < Len(s) THEN n ELSE Len(s))

----------------------------------------------------------------------------
(* The backing engine: one SQLite connection per store, reached through    *)
(* cursor.execute and pd.read_sql_query.  A store is                       *)
(*   [catalog: table names in sqlite_master order,                         *)
(*    data: table name -> [columns, types, rows],                          *)
(*    tables: the bookkeeping set].                                        *)
(* The grammar covers the statements the handlers build and the query      *)
(* texts the model feeds them; any other text is reported as an error.     *)
(* SQLite is taken in its default build (no LIMIT clause on DELETE).       *)

EmptyData == [n \in {} |-> <<>>]
NewStore == [catalog |-> <<>>, data |-> EmptyData, tables |-> {}]

\* the tables an identifier names: SQLite matches names without regard to case
TablesNamed(s, w) == {n \in Range(s.catalog) : upper(n) = upper(w)}
TheTable(s, w) == CHOOSE n \in TablesNamed(s, w) : TRUE

DropTable(s, n) ==
    [catalog |-> SelectSeq(s.catalog, LAMBDA x : x # n),
     data |-> [m \in (DOMAIN s.data) \ {n} |-> s.data[m]],
     tables |-> s.tables]

\* the column type pandas declares for a dtype in CREATE TABLE
SqlType(dtype) ==
    CASE dtype = "int64" -> "INTEGER"
      [] dtype = "float64" -> "REAL"
      [] OTHER -> "TEXT"

\* the table CREATE TABLE + INSERT make of a frame
TableOf(df) ==
    [columns |-> df.columns,
     types |-> [j \in 1..Len(df.columns) |-> SqlType(FileDtype(Column(df, j)))],
     rows |-> df.rows]

CreateTable(s, n, df) ==
    [catalog |-> Append(s.catalog, n),
     data |-> [m \in (DOMAIN s.data) \cup {n} |-> IF m = n THEN TableOf(df) ELSE s.data[m]],
     tables |-> s.tables]

BadStatement == [kind |-> "bad"]

\* one statement: surrounding whitespace and one closing ';' removed
Statement(text) ==
    LET t == strip(text)
    IN  IF Len(t) > 0 /\ t[Len(t)] = ";" THEN SubSeq(t, 1, Len(t) - 1) ELSE t

ParseSelect(W) ==
    IF /\ Len(W) \in {4, 6}
       /\ upper(W[1]) = kwSELECT
       /\ upper(W[3]) = kwFROM
       /\ (Len(W) = 6 => upper(W[5]) = kwLIMIT /\ IsNumeral(W[6]))
    THEN [kind |-> "select", proj |-> W[2], table |-> W[4],
          limit |-> IF Len(W) = 6 THEN CharsToInt(W[6]) ELSE -1]
    ELSE BadStatement

\* the statement after a WITH clause: a SELECT or a DELETE
ParseMain(W) ==
    IF Len(W) > 0 /\ upper(W[1]) = kwDELETE
    THEN IF Len(W) = 3 /\ upper(W[2]) = kwFROM
         THEN [kind |-> "delete", table |-> W[3]]
         ELSE BadStatement
    ELSE ParseSelect(W)

ParseWith(W) ==
    LET closes == {i \in 1..Len(W) : W[i] = symClose}
        p == SetMin(closes)
        body == [i \in 1..(p - 5) |-> upper(W[i + 4])]
    IN  IF /\ Len(W) >= 7
           /\ BareIdentifier(W[2])
           /\ upper(W[3]) = kwAS
           /\ W[4] = symOpen
           /\ closes # {}
           /\ p > 5
           /\ body \in {<<kwSELECT, numOne>>, <<kwSELECT, numOne, kwLIMIT, numOne>>}
        THEN ParseMain(SubSeq(W, p + 1, Len(W)))
        ELSE BadStatement

ParseDrop(W) ==
    IF Len(W) = 3 /\ upper(W[2]) = kwTABLE
    THEN [kind |-> "drop", table |-> W[3], if_exists |-> FALSE]
    ELSE IF /\ Len(W) = 5 /\ upper(W[2]) = kwTABLE
            /\ upper(W[3]) = kwIF /\ upper(W[4]) = kwEXISTS
    THEN [kind |-> "drop", table |-> W[5], if_exists |-> TRUE]
    ELSE BadStatement

Parse(text) ==
    LET W == Words(Statement(text))
        first == IF Len(W) > 0 THEN upper(W[1]) ELSE <<>>
    IN  CASE first = kwSELECT -> ParseSelect(W)
          [] first = kwWITH -> ParseWith(W)
          [] first = kwDROP -> ParseDrop(W)
          [] first \in {kwINSERT, kwDELETE, kwUPDATE, kwREPLACE} -> [kind |-> "dml"]
          [] OTHER -> BadStatement

\* the sqlite3 driver opens an implicit transaction before a statement that
\* begins with one of these words; every other statement runs in autocommit
IsPlainDml(text) == Parse(text).kind = "dml"

SqlError(s) == [kind |-> "error", store |-> s]

ColumnsNamed(df, w) == {j \in 1..Len(df.columns) : upper(df.columns[j]) = upper(w)}

ExecSelect(s, st) ==
    IF ~BareIdentifier(st.table) \/ TablesNamed(s, st.table) = {} THEN SqlError(s)
    ELSE
        LET df == s.data[TheTable(s, st.table)]
            js == IF st.proj = symStar THEN 1..Len(df.columns)
                  ELSE IF BareIdentifier(st.proj) THEN ColumnsNamed(df, st.proj)
                  ELSE {}
            sel == Sorted(js)
            kept == IF st.limit < 0 THEN df.rows ELSE Head_n(df.rows, st.limit)
        IN  IF js = {} THEN SqlError(s)
            ELSE [kind |-> "rows",
                  df |-> [columns |-> [k \in 1..Len(sel) |-> df.columns[sel[k]]],
                          rows |-> [i \in 1..Len(kept) |->
                                       [k \in 1..Len(sel) |-> kept[i][sel[k]]]]],
                  store |-> s]

ExecDelete(s, st) ==
    IF ~BareIdentifier(st.table) \/ TablesNamed(s, st.table) = {} THEN SqlError(s)
    ELSE LET n == TheTable(s, st.table)
         IN  [kind |-> "norows",
              store |-> [s EXCEPT !.data[n] = [@ EXCEPT !.rows = <<>>]]]

ExecDrop(s, st) ==
    IF ~BareIdentifier(st.table) THEN SqlError(s)
    ELSE IF TablesNamed(s, st.table) = {}
    THEN IF st.if_exists THEN [kind |-> "norows", store |-> s] ELSE SqlError(s)
    ELSE [kind |-> "norows", store |-> DropTable(s, TheTable(s, st.table))]

\* cursor.execute(text): "rows" (a result set), "norows" (a statement that
\* returns none, already applied) or "error" (nothing applied)
ExecStatement(s, st) ==
    CASE st.kind = "select" -> ExecSelect(s, st)
      [] st.kind = "delete" -> ExecDelete(s, st)
      [] st.kind = "drop" -> ExecDrop(s, st)
      [] OTHER -> SqlError(s)

sqlite_execute(s, text) == ExecStatement(s, Parse(text))

\* pd.read_sql_query(text, conn): the statement is executed first; building the
\* frame from a cursor without a result set raises, after the statement took effect
WrapResult(r) ==
    IF r.kind = "rows" THEN [ok |-> TRUE, df |-> r.df, store |-> r.store]
    ELSE [ok |-> FALSE, store |-> r.store]

read_sql_query(s, text) == WrapResult(sqlite_execute(s, text))

\* df.to_sql(name, conn, if_exists='append'): the rows are added to the table
to_sql_append(s, name, df) ==
    IF name \in Range(s.catalog)
    THEN [ok |-> TRUE,
          store |-> [s EXCEPT !.data[name] = [@ EXCEPT !.rows = @ \o df.rows]]]
    ELSE IF TablesNamed(s, name) # {} THEN [ok |-> FALSE, store |-> s]
    ELSE [ok |-> TRUE, store |-> CreateTable(s, name, df)]

\* df.to_sql(name, conn, if_exists='replace', index=False): pandas quotes the name
\* and looks for an existing table of exactly that name
to_sql(s, name, df) ==
    IF name \in Range(s.catalog) THEN [ok |-> TRUE, store |-> CreateTable(DropTable(s, name), name, df)]
    ELSE IF TablesNamed(s, name) # {} THEN [ok |-> FALSE, store |-> s]
    ELSE [ok |-> TRUE, store |-> CreateTable(s, name, df)]

----------------------------------------------------------------------------
(* Files.  fs maps a file name to                                          *)
(*   [df: the table the file holds, detected: chardet's answer ("" = none),*)
(*    decode: encoding -> outcome of pd.read_csv with that encoding,       *)
(*    sheets: sheet name -> table, for spreadsheets].                      *)
(* A name outside DOMAIN fs is a file that does not exist.                 *)

FallbackEncodings == <<"utf-8", "gbk", "gb2312", "latin-1">>

extCsv == <<".","c","s","v">>
extTsv == <<".","t","s","v">>
extXlsx == <<".","x","l","s","x">>
extXls == <<".","x","l","s">>
extJson == <<".","j","s","o","n">>
extParquet == <<".","p","a","r","q","u","e","t">>

\* Path.suffix and Path.stem of a file name
Dots(p) == {i \in 2..Len(p) : p[i] = "."}
Suffix(p) == IF Dots(p) = {} THEN <<>> ELSE SubSeq(p, SetMax(Dots(p)), Len(p))
Stem(p) == IF Dots(p) = {} THEN p ELSE SubSeq(p, 1, SetMax(Dots(p)) - 1)

NoFrame == [columns |-> <<>>, rows |-> <<>>]

get_or_create_db(dbs, db_name) ==
    IF db_name \in DOMAIN dbs THEN dbs
    ELSE [n \in (DOMAIN dbs) \cup {db_name} |-> IF n = db_name THEN NewStore ELSE dbs[n]]

detect_file_encoding(file) == IF file.detected = "" THEN "utf-8" ELSE file.detected

\* outcome of pd.read_csv(path, encoding=enc): "ok" or the exception raised
pd_read_csv(file, enc) ==
    IF enc \in DOMAIN file.decode THEN file.decode[enc] ELSE "LookupError"

\* for enc in [...]: try: read; break / except: continue / else: raise
RECURSIVE TryEncodings(_, _, _)
TryEncodings(file, encs, log) ==
    IF Len(encs) = 0 THEN [ok |-> FALSE, log |-> log]
    ELSE IF pd_read_csv(file, Head(encs)) = "ok"
    THEN [ok |-> TRUE, log |-> Append(log, Head(encs))]
    ELSE TryEncodings(file, Tail(encs), Append(log, Head(encs)))

LoadCsv(file, encoding) ==
    LET enc == IF encoding # "" THEN encoding ELSE detect_file_encoding(file)
        first == pd_read_csv(file, enc)
        retry == TryEncodings(file, FallbackEncodings, <<enc>>)
    IN  IF first = "ok"
        THEN [kind |-> "ok", df |-> file.df, log |-> <<enc>>, error |-> ""]
        ELSE IF first = "UnicodeDecodeError"
        THEN IF retry.ok
             THEN [kind |-> "ok", df |-> file.df, log |-> retry.log, error |-> ""]
             ELSE [kind |-> "error", df |-> NoFrame, log |-> retry.log,
                   error |-> "encoding_undeterminable"]
        ELSE [kind |-> "error", df |-> NoFrame, log |-> <<enc>>, error |-> first]

LoadTsv(file, encoding) ==
    LET enc == IF encoding # "" THEN encoding ELSE detect_file_encoding(file)
        first == pd_read_csv(file, enc)
    IN  IF first = "ok"
        THEN [kind |-> "ok", df |-> file.df, log |-> <<enc>>, error |-> ""]
        ELSE [kind |-> "error", df |-> NoFrame, log |-> <<enc>>, error |-> first]

LoadExcel(file, sheet_name) ==
    IF sheet_name = ""
    THEN [kind |-> "ok", df |-> file.df, log |-> <<>>, error |-> ""]
    ELSE IF sheet_name \in DOMAIN file.sheets
    THEN [kind |-> "ok", df |-> file.sheets[sheet_name], log |-> <<>>, error |-> ""]
    ELSE [kind |-> "error", df |-> NoFrame, log |-> <<>>, error |-> "ValueError"]

\* the extension dispatch of import_file
LoadFile(file, file_ext, sheet_name, encoding) ==
    CASE file_ext = extCsv -> LoadCsv(file, encoding)
      [] file_ext \in {extXlsx, extXls} -> LoadExcel(file, sheet_name)
      [] file_ext \in {extJson, extParquet} ->
            [kind |-> "ok", df |-> file.df, log |-> <<>>, error |-> ""]
      [] file_ext = extTsv -> LoadTsv(file, encoding)
      [] OTHER -> [kind |-> "unsupported", df |-> NoFrame, log |-> <<>>, error |-> ""]

DefaultTableName(file_path) == replace(replace(Stem(file_path), " ", "_"), "-", "_")

Statistics(df) ==
    [rows |-> Len(df.rows),
     columns |-> Len(df.columns),
     column_names |-> df.columns,
     column_types |-> [j \in 1..Len(df.columns) |-> FileDtype(Column(df, j))]]

\* import_file: the registry after the call, the value returned, the encodings read
ImportFile(dbs, files, file_path, table_name, db_name, sheet_name, encoding) ==
    IF file_path \notin DOMAIN files
    THEN [dbs |-> dbs, log |-> <<>>,
          result |-> [status |-> "error", message |-> "file_not_found"]]
    ELSE
        LET name == IF table_name # <<>> THEN table_name ELSE DefaultTableName(file_path)
            file_ext == lower(Suffix(file_path))
            ld == LoadFile(files[file_path], file_ext, sheet_name, encoding)
            dbs1 == get_or_create_db(dbs, db_name)
            w == to_sql(dbs1[db_name], name, ld.df)
        IN  IF ld.kind = "unsupported"
            THEN [dbs |-> dbs, log |-> ld.log,
                  result |-> [status |-> "error", message |-> "unsupported_format"]]
            ELSE IF ld.kind = "error"
            THEN [dbs |-> dbs, log |-> ld.log,
                  result |-> [status |-> "error", message |-> "import_failed",
                              detail |-> ld.error]]
            ELSE IF ~w.ok
            THEN [dbs |-> dbs1, log |-> ld.log,
                  result |-> [status |-> "error", message |-> "import_failed",
                              detail |-> "table_exists"]]
            ELSE [dbs |-> [dbs1 EXCEPT ![db_name] =
                              [w.store EXCEPT !.tables = @ \cup {name}]],
                  log |-> ld.log,
                  result |-> [status |-> "success", message |-> "imported",
                              database |-> db_name, table |-> name,
                              statistics |-> Statistics(ld.df)]]

----------------------------------------------------------------------------
(* list_tables, describe_table, execute_sql *)

\* rows of the 5-row sample describe_table reads
SampleRows == 5

NoDatabase == [status |-> "error", message |-> "no_database"]

\* cursor.execute("SELECT name FROM sqlite_master WHERE type='table';")
CatalogTables(s) == s.catalog

\* list_tables through get_or_create_db(db_name): an unknown store is created
ListTables_lazy(dbs, db_name) ==
    [dbs |-> get_or_create_db(dbs, db_name), run |-> <<>>,
     result |-> [status |-> "success", database |-> db_name,
                 tables |-> CatalogTables(get_or_create_db(dbs, db_name)[db_name])]]

ListTables(dbs, db_name) ==
    IF db_name \notin DOMAIN dbs
    THEN [dbs |-> dbs, run |-> <<>>, result |-> NoDatabase]
    ELSE [dbs |-> dbs, run |-> <<>>,
          result |-> [status |-> "success", database |-> db_name,
                      tables |-> CatalogTables(dbs[db_name])]]

\* cursor.execute(f"PRAGMA table_info({table_name});"): the name is pasted unquoted
PragmaTableInfo(s, table_name) ==
    IF ~BareIdentifier(table_name) THEN [ok |-> FALSE, info |-> <<>>]
    ELSE IF TablesNamed(s, table_name) = {} THEN [ok |-> TRUE, info |-> <<>>]
    ELSE LET t == s.data[TheTable(s, table_name)]
         IN  [ok |-> TRUE,
              info |-> [j \in 1..Len(t.columns) |->
                           [name |-> t.columns[j], type |-> t.types[j]]]]

RECURSIVE SumSeq(_)
SumSeq(s) == IF Len(s) = 0 THEN 0 ELSE Head(s) + SumSeq(Tail(s))

\* the numbers of a column, in row order
Numbers(col) ==
    LET keep == SelectSeq(col, IsNum) IN [i \in 1..Len(keep) |-> keep[i][2]]

\* a / b rounded to the nearest integer, ties to the even one (a >= 0, b > 0)
RoundDiv(a, b) ==
    LET q == a \div b
        r == a % b
    IN  IF 2 * r > b \/ (2 * r = b /\ q % 2 = 1) THEN q + 1 ELSE q

\* SELECT MIN(c), MAX(c), AVG(c); avg is kept in hundredths: round(avg_val, 2),
\* and "None" when avg_val is falsy (NULL or 0)
NumericStats(col) ==
    LET xs == Numbers(col)
    IN  IF Len(xs) = 0 THEN [min |-> "None", max |-> "None", avg |-> "None"]
        ELSE [min |-> SetMin(Range(xs)), max |-> SetMax(Range(xs)),
              avg |-> IF SumSeq(xs) = 0 THEN "None"
                      ELSE [hundredths |-> RoundDiv(100 * SumSeq(xs), Len(xs))]]

\* f"SELECT * FROM {table_name} LIMIT 5"
SampleSql(table_name) ==
    Join(<<kwSELECT, symStar, kwFROM, table_name, kwLIMIT, IntToChars(SampleRows)>>)

\* describe_table once the column list and the sample have been read
Description(dbs, table_name, db_name, columns_info, sample_sql, sample, t) ==
    IF ~columns_info.ok
    THEN [dbs |-> dbs, run |-> <<>>,
          result |-> [status |-> "error", message |-> "describe_failed"]]
    ELSE IF Len(columns_info.info) = 0
    THEN [dbs |-> dbs, run |-> <<>>,
          result |-> [status |-> "error", message |-> "no_table"]]
    ELSE IF ~sample.ok \/ \E j \in NumericCols(sample.df) : ~BareIdentifier(t.columns[j])
    THEN [dbs |-> dbs, run |-> <<sample_sql>>,
          result |-> [status |-> "error", message |-> "describe_failed"]]
    ELSE [dbs |-> dbs, run |-> <<sample_sql>>,
          result |-> [status |-> "success", database |-> db_name,
                      table |-> table_name,
                      row_count |-> Len(t.rows),
                      columns |-> columns_info.info,
                      sample_data |-> sample.df.rows,
                      numeric_statistics |->
                          [j \in NumericCols(sample.df) |-> NumericStats(Column(t, j))]]]

DescribeTable(dbs, table_name, db_name) ==
    IF db_name \notin DOMAIN dbs
    THEN [dbs |-> dbs, run |-> <<>>, result |-> NoDatabase]
    ELSE Description(dbs, table_name, db_name,
                     PragmaTableInfo(dbs[db_name], table_name),
                     SampleSql(table_name),
                     read_sql_query(dbs[db_name], SampleSql(table_name)),
                     dbs[db_name].data[TheTable(dbs[db_name], table_name)])

\* the gate without .upper(): a prefix test that minds letter case
PassesGate_CaseSensitive(query) ==
    \/ startswith(query, kwSELECT)
    \/ startswith(query, kwWITH)

\* the safety gate: query.upper().startswith(('SELECT', 'WITH')) on the stripped text
PassesGate(query) ==
    \/ startswith(upper(query), kwSELECT)
    \/ startswith(upper(query), kwWITH)

\* if 'LIMIT' not in query.upper(): query = f"{query} LIMIT {limit}"
WithLimit(query, limit) ==
    IF ~contains(upper(query), kwLIMIT)
    THEN query \o <<" ">> \o kwLIMIT \o <<" ">> \o IntToChars(limit)
    ELSE query

\* the outcome of execute_sql once pd.read_sql_query(query, conn) has answered r
QueryOutcome(dbs, db_name, query, r) ==
    IF ~r.ok
    THEN [dbs |-> [dbs EXCEPT ![db_name] = r.store], run |-> <<query>>,
          result |-> [status |-> "error", message |-> "sql_failed"]]
    ELSE [dbs |-> [dbs EXCEPT ![db_name] = r.store], run |-> <<query>>,
          result |-> [status |-> "success", database |-> db_name,
                      query |-> query,
                      row_count |-> Len(r.df.rows),
                      columns |-> r.df.columns,
                      data |-> r.df.rows]]

\* execute_sql from the gate on; query is the stripped text
GatedQuery(dbs, query, db_name, limit) ==
    IF ~PassesGate(query)
    THEN [dbs |-> dbs, run |-> <<>>,
          result |-> [status |-> "error", message |-> "only_select_and_with"]]
    ELSE QueryOutcome(dbs, db_name, WithLimit(query, limit),
                      read_sql_query(dbs[db_name], WithLimit(query, limit)))

ExecuteSql(dbs, query_arg, db_name, limit) ==
    IF db_name \notin DOMAIN dbs
    THEN [dbs |-> dbs, run |-> <<>>, result |-> NoDatabase]
    ELSE GatedQuery(dbs, strip(query_arg), db_name, limit)

----------------------------------------------------------------------------
(* generate_analysis_report.  A report is a function from section name to  *)
(* section value.  basic_info's memory_usage and numeric_summary's mean,    *)
(* std and quartiles are left out: they are real-valued and informational.  *)

\* abs(corr_val) > 0.7, the threshold as a fraction
ThresholdNum == 7
ThresholdDen == 10
\* round(corr_val, 3)
RoundDigits == 3

NoSections == [k \in {} |-> <<>>]
Section(present, key, value) == IF present THEN key :> value ELSE NoSections

ColumnIndex(df, name) == CHOOSE j \in 1..Len(df.columns) : df.columns[j] = name
ColumnNames(df, js) == {df.columns[j] : j \in js}

\* df[numeric_cols].describe()
NumericSummary(df) ==
    [name \in ColumnNames(df, NumericCols(df)) |->
        LET xs == Numbers(Column(df, ColumnIndex(df, name)))
        IN  [count |-> Len(xs), sum |-> SumSeq(xs),
             min |-> SetMin(Range(xs)), max |-> SetMax(Range(xs))]]

\* df.isnull().sum()
NullCount(col) == Cardinality({i \in 1..Len(col) : IsNull(col[i])})
MissingCols(df) == {j \in 1..Len(df.columns) : NullCount(Column(df, j)) > 0}
MissingValues(df) ==
    [name \in ColumnNames(df, MissingCols(df)) |->
        NullCount(Column(df, ColumnIndex(df, name)))]

\* df.dtypes.value_counts()
DataTypes(df) ==
    LET dtype(j) == SqlDtype(Column(df, j))
    IN  [d \in {dtype(j) : j \in 1..Len(df.columns)} |->
            Cardinality({j \in 1..Len(df.columns) : dtype(j) = d})]

\* df.duplicated().sum(): rows equal to an earlier row
Duplicates(df) ==
    Cardinality({i \in 1..Len(df.rows) : \E k \in 1..(i - 1) : df.rows[k] = df.rows[i]})

\* df[col].nunique(): distinct values, missing ones not counted
NUnique(col) == Cardinality({col[i] : i \in {k \in 1..Len(col) : ~IsNull(col[k])}})

\* the columns kept by `if unique_count < len(df)`
RepeatingCols(df) ==
    {j \in 1..Len(df.columns) : NUnique(Column(df, j)) < Len(df.rows)}

UniqueCounts(df) ==
    [name \in ColumnNames(df, RepeatingCols(df)) |->
        NUnique(Column(df, ColumnIndex(df, name)))]

\* numeric_df.corr(): Pearson over the rows where both columns have a value.
\* The coefficient is num / sqrt(den2); nan when it is undefined.
Corr(df, a, b) ==
    LET ca == Column(df, a)
        cb == Column(df, b)
        both == SelectSeq([i \in 1..Len(ca) |-> <<ca[i], cb[i]>>],
                          LAMBDA pr : IsNum(pr[1]) /\ IsNum(pr[2]))
        n == Len(both)
        xs == [i \in 1..n |-> both[i][1][2]]
        ys == [i \in 1..n |-> both[i][2][2]]
        sx == SumSeq(xs)
        sy == SumSeq(ys)
        sxx == SumSeq([i \in 1..n |-> xs[i] * xs[i]])
        syy == SumSeq([i \in 1..n |-> ys[i] * ys[i]])
        sxy == SumSeq([i \in 1..n |-> xs[i] * ys[i]])
        vx == n * sxx - sx * sx
        vy == n * syy - sy * sy
    IN  [nan |-> n < 2 \/ vx = 0 \/ vy = 0,
         num |-> n * sxy - sx * sy,
         den2 |-> vx * vy]

\* corr_val > 0.7, without abs()
AboveThreshold_noabs(c) ==
    /\ ~c.nan
    /\ c.num > 0
    /\ ThresholdDen * ThresholdDen * c.num * c.num > ThresholdNum * ThresholdNum * c.den2

\* abs(corr_val) > 0.7; a comparison with nan is false
AboveThreshold(c) ==
    /\ ~c.nan
    /\ ThresholdDen * ThresholdDen * c.num * c.num > ThresholdNum * ThresholdNum * c.den2

\* the largest k in lo..hi with k * k <= x
RECURSIVE ISqrt(_, _, _)
ISqrt(lo, hi, x) ==
    IF lo = hi THEN lo
    ELSE LET mid == (lo + hi + 1) \div 2
         IN  IF mid * mid <= x THEN ISqrt(mid, hi, x) ELSE ISqrt(lo, mid - 1, x)

\* round(corr_val, 3) in units of 10^-3, ties to the even digit
Round3(c) ==
    LET scale == 10 ^ RoundDigits
        x == (scale * scale * c.num * c.num) \div c.den2
        k == ISqrt(0, scale, x)
        up == (2 * k + 1) * (2 * k + 1) * c.den2
        val == 4 * scale * scale * c.num * c.num
        mag == IF up < val \/ (up = val /\ k % 2 = 1) THEN k + 1 ELSE k
    IN  IF c.num < 0 THEN 0 - mag ELSE mag

\* the double loop over i < j of the correlation matrix
HighCorrPairs(df) ==
    LET cols == Sorted(NumericCols(df))
        m == Len(cols)
        hits == {p \in (1..m) \X (1..m) :
                    p[1] < p[2] /\ AboveThreshold(Corr(df, cols[p[1]], cols[p[2]]))}
        order == Sorted({p[1] * (m + 1) + p[2] : p \in hits})
    IN  [q \in 1..Len(order) |->
            LET i == order[q] \div (m + 1)
                j == order[q] % (m + 1)
            IN  [column1 |-> df.columns[cols[i]],
                 column2 |-> df.columns[cols[j]],
                 correlation |-> Round3(Corr(df, cols[i], cols[j]))]]

BasicSections(df) ==
    Section(NumericCols(df) # {}, "numeric_summary", NumericSummary(df))
    @@ Section(MissingCols(df) # {}, "missing_values", MissingValues(df))
    @@ ("data_types" :> DataTypes(df))

StatisticalSections(df) ==
    Section(Duplicates(df) > 0, "duplicate_rows", Duplicates(df))
    @@ Section(RepeatingCols(df) # {}, "unique_value_counts", UniqueCounts(df))

CorrelationSections(df) ==
    Section(Cardinality(NumericCols(df)) > 1 /\ Len(HighCorrPairs(df)) > 0,
            "high_correlations", HighCorrPairs(df))

\* tiers that exclude one another: if analysis_type == "basic" ... elif ...
Report_exclusive(df, table_name, analysis_type) ==
    ("table" :> table_name)
    @@ ("analysis_type" :> analysis_type)
    @@ ("basic_info" :> [rows |-> Len(df.rows), columns |-> Len(df.columns)])
    @@ (IF analysis_type = "basic" THEN BasicSections(df) ELSE NoSections)
    @@ (IF analysis_type = "statistical" THEN StatisticalSections(df) ELSE NoSections)
    @@ (IF analysis_type = "correlation" THEN CorrelationSections(df) ELSE NoSections)

Report(df, table_name, analysis_type) ==
    ("table" :> table_name)
    @@ ("analysis_type" :> analysis_type)
    @@ ("basic_info" :> [rows |-> Len(df.rows), columns |-> Len(df.columns)])
    @@ (IF analysis_type \in {"basic", "statistical", "correlation"}
        THEN BasicSections(df) ELSE NoSections)
    @@ (IF analysis_type \in {"statistical", "correlation"}
        THEN StatisticalSections(df) ELSE NoSections)
    @@ (IF analysis_type = "correlation"
        THEN CorrelationSections(df) ELSE NoSections)

GenerateAnalysisReport(dbs, table_name, db_name, analysis_type) ==
    IF db_name \notin DOMAIN dbs
    THEN [dbs |-> dbs, run |-> <<>>, result |-> NoDatabase]
    ELSE
        LET sql == Join(<<kwSELECT, symStar, kwFROM, table_name>>)
            r == read_sql_query(dbs[db_name], sql)
            after == [dbs EXCEPT ![db_name] = r.store]
        IN  IF ~r.ok
            THEN [dbs |-> after, run |-> <<sql>>,
                  result |-> [status |-> "error", message |-> "report_failed"]]
            ELSE [dbs |-> after, run |-> <<sql>>,
                  result |-> [status |-> "success", database |-> db_name,
                              report |-> Report(r.df, table_name, analysis_type)]]

----------------------------------------------------------------------------
(* export_query_result, clean_database, the analyze_data_file prompt *)

fmtCsv == <<"c","s","v">>
fmtExcel == <<"e","x","c","e","l">>
fmtJson == <<"j","s","o","n">>

\* the query runs ungated; the written file is not read back by the model
ExportQueryResult(dbs, query, output_path, db_name, format) ==
    IF db_name \notin DOMAIN dbs
    THEN [dbs |-> dbs, run |-> <<>>, result |-> NoDatabase]
    ELSE
        LET r == read_sql_query(dbs[db_name], query)
            after == [dbs EXCEPT ![db_name] = r.store]
        IN  IF ~r.ok
            THEN [dbs |-> after, run |-> <<query>>,
                  result |-> [status |-> "error", message |-> "export_failed"]]
            ELSE IF lower(format) \notin {fmtCsv, fmtExcel, fmtJson}
            THEN [dbs |-> after, run |-> <<query>>,
                  result |-> [status |-> "error", message |-> "unsupported_output_format"]]
            ELSE [dbs |-> after, run |-> <<query>>,
                  result |-> [status |-> "success", message |-> "exported",
                              output_path |-> output_path, format |-> format,
                              row_count |-> Len(r.df.rows)]]

\* f"DROP TABLE IF EXISTS {table};": the name is pasted unquoted
DropStatement(table) == Join(<<kwDROP, kwTABLE, kwIF, kwEXISTS, table \o <<";">>>>)

\* for table in tables: cursor.execute(DROP ...); a failing statement raises and
\* leaves the earlier drops applied
RECURSIVE DropAll(_, _)
DropAll(s, tables) ==
    IF Len(tables) = 0 THEN [ok |-> TRUE, store |-> s]
    ELSE LET r == sqlite_execute(s, DropStatement(Head(tables)))
         IN  IF r.kind = "error" THEN [ok |-> FALSE, store |-> r.store]
             ELSE DropAll(r.store, Tail(tables))

CleanDatabase(dbs, db_name) ==
    IF db_name \notin DOMAIN dbs
    THEN [dbs |-> dbs, run |-> <<>>, result |-> NoDatabase]
    ELSE
        LET tables == CatalogTables(dbs[db_name])
            d == DropAll(dbs[db_name], tables)
        IN  IF ~d.ok
            THEN [dbs |-> [dbs EXCEPT ![db_name] = d.store], run |-> <<>>,
                  result |-> [status |-> "error", message |-> "clean_failed"]]
            ELSE [dbs |-> [dbs EXCEPT ![db_name] = [d.store EXCEPT !.tables = {}]],
                  run |-> <<>>,
                  result |-> [status |-> "success", message |-> "cleaned",
                              deleted_tables |-> tables]]

\* import_file(file_path) followed by generate_analysis_report(table, "default",
\* "correlation"); the returned messages are reduced to their kind
ReportStep(imp, rep) ==
    [dbs |-> rep.dbs, run |-> rep.run, log |-> imp.log,
     result |-> [status |-> "prompt",
                 message |-> IF rep.result.status = "error" THEN "no_report" ELSE "report"]]

ImportStep(imp) ==
    IF imp.result.status = "error"
    THEN [dbs |-> imp.dbs, run |-> <<>>, log |-> imp.log,
          result |-> [status |-> "prompt", message |-> "import_failed"]]
    ELSE ReportStep(imp, GenerateAnalysisReport(imp.dbs, imp.result.table, "default",
                                                "correlation"))

AnalyzeDataFile(dbs, files, file_path) ==
    ImportStep(ImportFile(dbs, files, file_path, <<>>, "default", "", ""))

----------------------------------------------------------------------------
(* The tool calls as actions *)

\* a handler's outcome: the registry, the reply, the statements handed to
\* read_sql_query (run) and the encodings tried on the file (log)
Apply(c, out) ==
    /\ call' = c
    /\ db_connections' = out.dbs
    /\ result' = out.result
    /\ executed' = IF "run" \in DOMAIN out THEN out.run ELSE <<>>
    /\ read_log' = IF "log" \in DOMAIN out THEN out.log ELSE <<>>
    /\ UNCHANGED fs

import_file(file_path, table_name, db_name, sheet_name, encoding) ==
    Apply([op |-> "import_file", file_path |-> file_path, table_name |-> table_name,
           db_name |-> db_name, sheet_name |-> sheet_name, encoding |-> encoding],
          ImportFile(db_connections, fs, file_path, table_name, db_name,
                     sheet_name, encoding))

list_tables(db_name) ==
    Apply([op |-> "list_tables", db_name |-> db_name],
          ListTables(db_connections, db_name))

describe_table(table_name, db_name) ==
    Apply([op |-> "describe_table", table_name |-> table_name, db_name |-> db_name],
          DescribeTable(db_connections, table_name, db_name))

execute_sql(query, db_name, limit) ==
    Apply([op |-> "execute_sql", query |-> query, db_name |-> db_name, limit |-> limit],
          ExecuteSql(db_connections, query, db_name, limit))

generate_analysis_report(table_name, db_name, analysis_type) ==
    Apply([op |-> "generate_analysis_report", table_name |-> table_name,
           db_name |-> db_name, analysis_type |-> analysis_type],
          GenerateAnalysisReport(db_connections, table_name, db_name, analysis_type))

\* a query that begins with INSERT/DELETE/UPDATE/REPLACE would leave a transaction
\* open on the connection; exports of such texts are not among the inputs
export_query_result(query, output_path, db_name, format) ==
    /\ ~IsPlainDml(query)
    /\ Apply([op |-> "export_query_result", query |-> query,
              output_path |-> output_path, db_name |-> db_name, format |-> format],
             ExportQueryResult(db_connections, query, output_path, db_name, format))

clean_database(db_name) ==
    Apply([op |-> "clean_database", db_name |-> db_name],
          CleanDatabase(db_connections, db_name))

analyze_data_file(file_path) ==
    Apply([op |-> "analyze_data_file", file_path |-> file_path],
          AnalyzeDataFile(db_connections, fs, file_path))

----------------------------------------------------------------------------
(* Inputs of the registry specification *)

DbNames == {"default", "other"}

nameT == <<"t">>
nameQ1 == <<"2","0","2","4","_","q","1">>
nameGhost == <<"g","h","o","s","t">>
colId == <<"i","d">>
colCreditLimit == <<"c","r","e","d","i","t","_","l","i","m","i","t">>
colName == <<"n","a","m","e">>
colK == <<"k">>
colV == <<"v">>

fileT == <<"t",".","c","s","v">>
fileTsv == <<"t",".","t","s","v">>
fileBook == <<"t",".","X","L","S","X">>
fileQ1 == <<"2","0","2","4","-","q","1",".","j","s","o","n">>
fileNotes == <<"n","o","t","e","s",".","t","x","t">>
fileGone == <<"g","o","n","e",".","c","s","v">>

FrameA ==
    [columns |-> <<colId, colCreditLimit, colName>>,
     rows |-> << <<Num(0), Num(1), Txt(1)>>,
                 <<Num(1), NULL,   Txt(2)>>,
                 <<Num(2), Num(1), Txt(1)>>,
                 <<Num(3), Num(2), Txt(1)>> >>]

FrameB ==
    [columns |-> <<colK, colV>>,
     rows |-> << <<Num(1), Txt(1)>>, <<Num(1), Txt(1)>> >>]

Encodings == {"utf-8", "gbk", "gb2312", "latin-1", "ascii"}
PlainText == [e \in Encodings |-> "ok"]
\* a GBK file: not ASCII, not valid UTF-8
GbkText ==
    [e \in Encodings |-> IF e \in {"ascii", "utf-8"} THEN "UnicodeDecodeError" ELSE "ok"]
NoSheets == [n \in {} |-> NoFrame]

File(df, detected, decode, sheets) ==
    [df |-> df, detected |-> detected, decode |-> decode, sheets |-> sheets]

RegistryFiles ==
    (fileT :> File(FrameA, "ascii", PlainText, NoSheets))
    @@ (fileTsv :> File(FrameA, "ascii", GbkText, NoSheets))
    @@ (fileBook :> File(FrameA, "", PlainText, ("Sheet1" :> FrameA) @@ ("S2" :> FrameB)))
    @@ (fileQ1 :> File(FrameB, "", PlainText, NoSheets))
    @@ (fileNotes :> File(NoFrame, "ascii", PlainText, NoSheets))

\* import_file calls: <<file_path, table_name, db_name, sheet_name, encoding>>
ImportCalls ==
    {<<fileT, <<>>, "default", "", "">>,
     <<fileQ1, <<>>, "default", "", "">>,
     <<fileQ1, nameT, "default", "", "">>,
     <<fileTsv, <<>>, "default", "", "">>,
     <<fileTsv, <<>>, "default", "", "gbk">>,
     <<fileBook, <<>>, "default", "S2", "">>,
     <<fileBook, <<>>, "default", "Sheet9", "">>,
     <<fileNotes, <<>>, "default", "", "">>,
     <<fileGone, <<>>, "default", "", "">>,
     <<fileT, <<>>, "other", "", "">>,
     <<fileQ1, <<>>, "other", "", "">>,
     <<fileGone, <<>>, "other", "", "">>}

Q(words) == Join(words)
qSelectT == Q(<<kwSELECT, symStar, kwFROM, nameT>>)
qDeleteT ==
    Q(<<kwWITH, <<"x">>, kwAS, symOpen, kwSELECT, numOne, kwLIMIT, numOne, symClose,
        kwDELETE, kwFROM, nameT>>)
qDropT == Q(<<kwDROP, kwTABLE, nameT>>)

\* describe_table calls: <<table_name, db_name>>
\* a table_name argument that is the name of no table
nameTLimit == Join(<<nameT, kwLIMIT, numOne>>)

DescribeCalls ==
    {<<nameT, "default">>, <<nameQ1, "default">>, <<nameGhost, "default">>,
     <<nameTLimit, "default">>, <<nameT, "other">>}

\* execute_sql calls: <<query, db_name, limit>>
ExecuteCalls ==
    {<<qSelectT, "default", MaxLimit>>, <<qDeleteT, "default", MaxLimit>>,
     <<qDropT, "default", MaxLimit>>, <<qSelectT, "other", MaxLimit>>}

\* generate_analysis_report calls: <<table_name, db_name, analysis_type>>
ReportCalls ==
    {<<nameT, "default", "correlation">>, <<nameQ1, "default", "basic">>,
     <<nameGhost, "default", "statistical">>, <<nameTLimit, "default", "basic">>,
     <<nameT, "other", "basic">>}

\* export_query_result calls: <<query, output_path, db_name, format>>
outPath == <<"o","u","t">>
ExportCalls ==
    {<<qSelectT, outPath, "default", fmtCsv>>, <<qDropT, outPath, "default", fmtJson>>,
     <<qSelectT, outPath, "default", <<"x","m","l">>>>,
     <<qSelectT, outPath, "other", upper(fmtExcel)>>}

AnalyzeCalls == {fileT, fileQ1, fileGone}

NoCall == [op |-> "none"]
NoResult == [status |-> "none"]
NoStores == [n \in {} |-> NewStore]

Init ==
    /\ db_connections = NoStores
    /\ fs = RegistryFiles
    /\ call = NoCall
    /\ result = NoResult
    /\ executed = <<>>
    /\ read_log = <<>>

Next ==
    \/ \E c \in ImportCalls : import_file(c[1], c[2], c[3], c[4], c[5])
    \/ \E d \in DbNames : list_tables(d)
    \/ \E c \in DescribeCalls : describe_table(c[1], c[2])
    \/ \E c \in ExecuteCalls : execute_sql(c[1], c[2], c[3])
    \/ \E c \in ReportCalls : generate_analysis_report(c[1], c[2], c[3])
    \/ \E c \in ExportCalls : export_query_result(c[1], c[2], c[3], c[4])
    \/ \E d \in DbNames : clean_database(d)
    \/ \E f \in AnalyzeCalls : analyze_data_file(f)

Spec == Init /\ [][Next]_vars

----------------------------------------------------------------------------
(* The query gateway on a loaded store: execute_sql over many query texts. *)
(* The store is the one import_file(t.csv) and import_file(2024-q1.json)    *)
(* leave behind.                                                           *)

QueryFiles ==
    (fileT :> File(FrameA, "ascii", PlainText, NoSheets))
    @@ (fileQ1 :> File(FrameB, "", PlainText, NoSheets))

LoadedStores ==
    ImportFile(ImportFile(NoStores, QueryFiles, fileT, <<>>, "default", "", "").dbs,
               QueryFiles, fileQ1, <<>>, "default", "", "").dbs

QueryLeads == {<<>>, <<"\n", " ">>}
QueryBodies ==
    {<<kwSELECT, symStar, kwFROM, nameT>>,
     <<kwSELECT, symStar, kwFROM, nameT, kwLIMIT, <<"2">>>>,
     <<kwSELECT, colCreditLimit, kwFROM, nameT>>,
     <<kwSELECT, symStar, kwFROM, nameGhost>>,
     <<kwSELECT, symStar, kwFROM, nameQ1>>,
     <<kwSELECT \o <<"A","L","L">>, symStar, kwFROM, nameT>>,
     <<kwWITH, <<"x">>, kwAS, symOpen, kwSELECT, numOne, symClose,
       kwSELECT, symStar, kwFROM, nameT>>,
     <<kwWITH, <<"x">>, kwAS, symOpen, kwSELECT, numOne, symClose,
       kwDELETE, kwFROM, nameT>>,
     <<kwWITH, <<"x">>, kwAS, symOpen, kwSELECT, numOne, kwLIMIT, numOne, symClose,
       kwDELETE, kwFROM, nameT>>,
     <<kwDROP, kwTABLE, nameT>>,
     <<kwINSERT, kwINTO, nameT, kwVALUES, symOpen, numOne, symClose>>,
     <<kwDELETE, kwFROM, nameT>>,
     <<symOpen, kwSELECT, symStar, kwFROM, nameT, symClose>>}

\* SeLeCt * FROM t: mixed letter case
qMixedCase ==
    <<"S","e","L","e","C","t">> \o <<" ">> \o Join(<<symStar, kwFROM, nameT>>)

GatewayQueries ==
    {lead \o Join(body) : lead \in QueryLeads, body \in QueryBodies}
    \cup {lead \o lower(Join(body)) \o <<" ">> : lead \in QueryLeads, body \in QueryBodies}
    \cup {qMixedCase, <<>>, <<" ">>}

InitQuery ==
    /\ db_connections = LoadedStores
    /\ fs = QueryFiles
    /\ call = NoCall
    /\ result = NoResult
    /\ executed = <<>>
    /\ read_log = <<>>

NextQuery ==
    \/ \E q \in GatewayQueries, l \in 0..MaxLimit : execute_sql(q, "default", l)
    \/ execute_sql(qSelectT, "other", MaxLimit)

SpecQuery == InitQuery /\ [][NextQuery]_vars

----------------------------------------------------------------------------
(* The analysis engine on one imported table: every table of up to MaxRows *)
(* rows over two columns of small numbers and missing values, and a few     *)
(* wider tables; one report per behaviour.                                  *)

colA == <<"a">>
colB == <<"b">>
colC == <<"c">>
CellValues == {NULL, Num(0), Num(1), Num(2)}
RowValues == CellValues \X CellValues

GeneratedFrames ==
    {[columns |-> <<colA, colB>>, rows |-> r] :
        r \in UNION {[1..n -> RowValues] : n \in 0..MaxRows}}

WideFrames ==
    {FrameA, FrameB,
     [columns |-> <<colA, colName, colB, colC>>,
      rows |-> << <<Num(0), Txt(1), Num(2), Num(0)>>,
                  <<Num(1), Txt(2), Num(1), Num(0)>>,
                  <<Num(2), Txt(3), Num(0), Num(1)>> >>],
     [columns |-> <<colA, colB, colC>>,
      rows |-> << <<Num(0), Num(0), Num(2)>>,
                  <<Num(1), Num(2), NULL>>,
                  <<Num(2), Num(1), Num(0)>>,
                  <<Num(2), Num(2), Num(0)>> >>]}

\* the three tiers and a label that is none of them
AnalysisTypes == {"basic", "statistical", "correlation", "summary"}

FilesHolding(df) == fileT :> File(df, "ascii", PlainText, NoSheets)

InitReport ==
    \E df \in GeneratedFrames \cup WideFrames :
        /\ fs = FilesHolding(df)
        /\ db_connections =
              ImportFile(NoStores, FilesHolding(df), fileT, <<>>, "default", "", "").dbs
        /\ call = NoCall
        /\ result = NoResult
        /\ executed = <<>>
        /\ read_log = <<>>

NextReport ==
    /\ call = NoCall
    /\ \E a \in AnalysisTypes : generate_analysis_report(nameT, "default", a)

SpecReport == InitReport /\ [][NextReport]_vars

----------------------------------------------------------------------------
(* import_file on delimited text: every combination of detector answer and *)
(* per-encoding outcome of pd.read_csv for one .csv and one .tsv file.      *)

ReadOutcomes == {"ok", "UnicodeDecodeError", "ParserError"}
DetectorAnswers == {"", "ascii", "gbk"}

\* every byte decodes as latin-1; what decodes as ascii decodes as utf-8
DecodeTables ==
    {d \in [Encodings -> ReadOutcomes] :
        /\ d["latin-1"] # "UnicodeDecodeError"
        /\ d["ascii"] # "UnicodeDecodeError" => d["utf-8"] # "UnicodeDecodeError"}

LoadEncodingArgs == {"", "utf-8", "gbk", "no-such-codec"}

InitLoad ==
    \E det \in DetectorAnswers, dec \in DecodeTables :
        /\ fs = (fileT :> File(FrameB, det, dec, NoSheets))
                @@ (fileTsv :> File(FrameB, det, dec, NoSheets))
        /\ db_connections = NoStores
        /\ call = NoCall
        /\ result = NoResult
        /\ executed = <<>>
        /\ read_log = <<>>

NextLoad ==
    /\ call = NoCall
    /\ \E f \in {fileT, fileTsv}, e \in LoadEncodingArgs :
          import_file(f, <<>>, "default", "", e)

SpecLoad == InitLoad /\ [][NextLoad]_vars

----------------------------------------------------------------------------
(* Imports into a loaded registry: store "default" already holds the tables *)
(* t and 2024_q1, so every import under one of these names meets a table of *)
(* that name.                                                               *)

nameUpperT == <<"T">>

ReimportCalls ==
    {<<f, n, d, "">> : f \in (DOMAIN RegistryFiles) \cup {fileGone},
                       n \in {<<>>, nameT, nameUpperT}, d \in DbNames}
    \cup {<<fileBook, n, d, "S2">> : n \in {<<>>, nameT, nameUpperT}, d \in DbNames}

InitImport ==
    /\ db_connections = LoadedStores
    /\ fs = RegistryFiles
    /\ call = NoCall
    /\ result = NoResult
    /\ executed = <<>>
    /\ read_log = <<>>

NextImport == \E c \in ReimportCalls : import_file(c[1], c[2], c[3], c[4], "")

SpecImport == InitImport /\ [][NextImport]_vars

----------------------------------------------------------------------------
(* Claims about the query gateway (SpecQuery) *)

RECURSIVE DropLeadingSpace(_)
DropLeadingSpace(q) ==
    IF Len(q) > 0 /\ q[1] \in Whitespace THEN DropLeadingSpace(Tail(q)) ELSE q

\* the text begins, after leading whitespace and in any letter case, with kw
BeginsWithWord(q, kw) ==
    LET t == DropLeadingSpace(q)
    IN  Len(t) >= Len(kw) /\ \A i \in 1..Len(kw) : UpChar(t[i]) = kw[i]

ExecutedOnStore == call.op = "execute_sql" /\ call.db_name \in DOMAIN db_connections

\* C1: on an existing store, execute_sql returns status=error and hands nothing
\* to the engine when the trimmed query text does not begin, in any letter case,
\* with SELECT or WITH; when it does, exactly one text, beginning with the
\* trimmed query, is handed to the engine.
C1_SafetyGate ==
    ExecutedOnStore =>
        IF BeginsWithWord(call.query, kwSELECT) \/ BeginsWithWord(call.query, kwWITH)
        THEN /\ Len(executed) = 1
             /\ startswith(executed[1], strip(call.query))
        ELSE /\ result.status = "error"
             /\ executed = <<>>

\* a lower-case, whitespace-wrapped select was accepted and answered
C1_Witness ==
    /\ ExecutedOnStore
    /\ call.query = <<"\n", " ">> \o lower(qSelectT) \o <<" ">>
    /\ result.status = "success"
    /\ Len(executed) = 1

\* C2: execute_sql is read-only: no call changes the tables or rows of any store.
C2_ReadOnly == [][call'.op = "execute_sql" => db_connections' = db_connections]_vars

\* some whitespace-separated word of the text is LIMIT, in any letter case
HasLimitWord(q) == \E i \in 1..Len(Words(q)) : upper(Words(q)[i]) = kwLIMIT

\* C3: a successful execute_sql returns at most `limit` rows, unless the query
\* has a LIMIT clause of its own; then the text runs unchanged and that LIMIT
\* bounds the rows.
C3_ResultCap ==
    (call.op = "execute_sql" /\ result.status = "success") =>
        IF HasLimitWord(call.query)
        THEN /\ result.query = strip(call.query)
             /\ (Parse(call.query).kind = "select"
                    => result.row_count <= Parse(call.query).limit)
        ELSE result.row_count <= call.limit

----------------------------------------------------------------------------
(* Claims about import_file (SpecImport) *)

\* the table a successful import_file(c) read from its file
ImportedFrame(c) ==
    IF c.sheet_name \in DOMAIN fs[c.file_path].sheets
    THEN fs[c.file_path].sheets[c.sheet_name]
    ELSE fs[c.file_path].df

Occurrences(seq, x) == Cardinality({i \in 1..Len(seq) : seq[i] = x})

ImportSucceeded == call.op = "import_file" /\ result.status = "success"

\* the store after a successful import: every table name once, the target table
\* equal to the frame just read, the reported counts those of that frame
ReplacedByImport ==
    /\ call.db_name \in DOMAIN db_connections
    /\ \A d \in DOMAIN db_connections : \A n \in Range(db_connections[d].catalog) :
           Occurrences(db_connections[d].catalog, n) = 1
    /\ Occurrences(db_connections[call.db_name].catalog, result.table) = 1
    /\ db_connections[call.db_name].data[result.table].columns = ImportedFrame(call).columns
    /\ db_connections[call.db_name].data[result.table].rows = ImportedFrame(call).rows
    /\ result.statistics.rows = Len(ImportedFrame(call).rows)
    /\ result.statistics.columns = Len(ImportedFrame(call).columns)

\* C4: import_file has replace semantics.  Every successful import leaves each
\* table name exactly once in the catalog of its store, leaves the target table
\* holding exactly the columns and rows of the frame just read (nothing of the
\* table that was there before), reports the row and column counts of that frame
\* (so two imports of one file report the same counts), and leaves every other
\* table of every store as it was.
C4_ReplaceSemantics ==
    [][ImportSucceeded' =>
          /\ ReplacedByImport'
          /\ \A d \in DOMAIN db_connections : \A n \in DOMAIN db_connections[d].data :
                 (d # call'.db_name \/ n # result'.table) =>
                     /\ n \in DOMAIN db_connections'[d].data
                     /\ db_connections'[d].data[n] = db_connections[d].data[n]]_vars

\* table t of store "default", which held the 4 rows of t.csv, now holds the 2
\* rows of 2024-q1.json
C4_Witness ==
    /\ ImportSucceeded
    /\ call.file_path = fileQ1 /\ call.table_name = nameT /\ call.db_name = "default"
    /\ result.table = nameT
    /\ result.statistics.rows = 2
    /\ db_connections["default"].data[nameT].rows = FrameB.rows
    /\ Occurrences(db_connections["default"].catalog, nameT) = 1

----------------------------------------------------------------------------
(* Claims about unknown names and clean_database (Spec) *)

StoreOps ==
    {"list_tables", "describe_table", "execute_sql", "generate_analysis_report",
     "export_query_result", "clean_database"}

TableOps == {"describe_table", "generate_analysis_report"}

\* C5: unknown names are reported as errors.  A call of list_tables,
\* describe_table, execute_sql, generate_analysis_report, export_query_result or
\* clean_database that names a store missing from the registry returns
\* status=error; a call of describe_table or generate_analysis_report on an
\* existing store with a table_name that names none of its tables (in any letter
\* case) returns status=error and carries neither a report nor a column list.
C5_UnknownNames ==
    [][/\ (call'.op \in StoreOps /\ call'.db_name \notin DOMAIN db_connections)
           => result'.status = "error"
       /\ (/\ call'.op \in TableOps
           /\ call'.db_name \in DOMAIN db_connections
           /\ TablesNamed(db_connections[call'.db_name], call'.table_name) = {})
           => /\ result'.status = "error"
              /\ "report" \notin DOMAIN result'
              /\ "columns" \notin DOMAIN result']_vars

\* C6: clean_database on an existing store drops every table of the catalog,
\* returns status=success with exactly the list of those names, empties the
\* bookkeeping set and leaves the other stores as they were; a list_tables
\* call on that store right after a successful clean returns status=success
\* with an empty table list.
C6_CleanDatabase ==
    [][/\ (call'.op = "clean_database" /\ call'.db_name \in DOMAIN db_connections)
           => /\ result'.status = "success"
              /\ result'.deleted_tables = db_connections[call'.db_name].catalog
              /\ DOMAIN db_connections' = DOMAIN db_connections
              /\ db_connections'[call'.db_name].catalog = <<>>
              /\ db_connections'[call'.db_name].tables = {}
              /\ \A d \in (DOMAIN db_connections) \ {call'.db_name} :
                     db_connections'[d] = db_connections[d]
       /\ (/\ call.op = "clean_database" /\ result.status = "success"
           /\ call'.op = "list_tables" /\ call'.db_name = call.db_name)
           => /\ result'.status = "success"
              /\ result'.tables = <<>>]_vars

----------------------------------------------------------------------------
(* Claims about the encoding fallback (SpecLoad) *)

\* the encoding import_file reads with first: the caller's, else the detected one
ChosenEncoding(c) ==
    IF c.encoding # "" THEN c.encoding
    ELSE IF fs[c.file_path].detected = "" THEN "utf-8" ELSE fs[c.file_path].detected

ReadWith(c, enc) ==
    IF enc \in DOMAIN fs[c.file_path].decode THEN fs[c.file_path].decode[enc]
    ELSE "LookupError"

\* positions of the fallback list whose encoding reads the file
Readable(c) == {i \in 1..Len(FallbackEncodings) : ReadWith(c, FallbackEncodings[i]) = "ok"}

Undeterminable ==
    /\ result.status = "error"
    /\ "detail" \in DOMAIN result
    /\ result.detail = "encoding_undeterminable"

\* the fallback contract for the import call of the current state
FallbackContract ==
    /\ Len(read_log) >= 1
    /\ read_log[1] = ChosenEncoding(call)
    /\ ReadWith(call, ChosenEncoding(call)) = "ok"
           => result.status = "success" /\ Len(read_log) = 1
    /\ ReadWith(call, ChosenEncoding(call)) = "UnicodeDecodeError"
           => IF Readable(call) = {}
              THEN /\ Undeterminable
                   /\ Tail(read_log) = FallbackEncodings
              ELSE /\ result.status = "success"
                   /\ Tail(read_log) = SubSeq(FallbackEncodings, 1, SetMin(Readable(call)))
    /\ Undeterminable => Readable(call) = {}

\* C7: for a .csv and for a .tsv file, import_file reads first with the caller's
\* encoding if given, else with the detected one; when that read fails to decode
\* it tries utf-8, gbk, gb2312, latin-1 in this order, each at most once, loads
\* with the first that reads the file, and reports the encoding-undeterminable
\* error only when all four fail.
C7_EncodingFallback ==
    (call.op = "import_file" /\ lower(Suffix(call.file_path)) \in {extCsv, extTsv})
        => FallbackContract

----------------------------------------------------------------------------
(* Claims about generate_analysis_report (SpecReport) *)

Reported(tier) ==
    /\ call.op = "generate_analysis_report"
    /\ call.analysis_type = tier
    /\ result.status = "success"

\* the frame SELECT * FROM t hands to the report
ReportedFrame ==
    [columns |-> db_connections[call.db_name].data[call.table_name].columns,
     rows |-> db_connections[call.db_name].data[call.table_name].rows]

SectionsAt(tier) == DOMAIN Report(ReportedFrame, call.table_name, tier)

\* C8: analysis tiers are cumulative.  The sections of a basic report are among
\* those of a statistical report of the same table, which are among those of a
\* correlation report; a basic report has no duplicate_rows, unique_value_counts
\* or high_correlations section and a statistical report has no
\* high_correlations section.
C8_CumulativeTiers ==
    /\ Reported("basic") =>
           /\ DOMAIN result.report \subseteq SectionsAt("statistical")
           /\ DOMAIN result.report \cap
                  {"duplicate_rows", "unique_value_counts", "high_correlations"} = {}
    /\ Reported("statistical") =>
           /\ SectionsAt("basic") \subseteq DOMAIN result.report
           /\ DOMAIN result.report \subseteq SectionsAt("correlation")
           /\ "high_correlations" \notin DOMAIN result.report
    /\ Reported("correlation") =>
           /\ SectionsAt("basic") \subseteq DOMAIN result.report
           /\ SectionsAt("statistical") \subseteq DOMAIN result.report

\* a correlation report that carries sections of all three tiers
C8_Witness ==
    /\ Reported("correlation")
    /\ {"numeric_summary", "data_types", "duplicate_rows", "unique_value_counts",
        "high_correlations"} \subseteq DOMAIN result.report

HighCorrelations ==
    IF "high_correlations" \in DOMAIN result.report
    THEN result.report.high_correlations ELSE <<>>

\* the entries of high_correlations for the columns at positions a and b
EntriesFor(a, b) ==
    {q \in 1..Len(HighCorrelations) :
        /\ HighCorrelations[q].column1 = ReportedFrame.columns[a]
        /\ HighCorrelations[q].column2 = ReportedFrame.columns[b]}

\* |r| > 7/10 for r = num / sqrt(den2)
ExceedsThreshold(c) == ~c.nan /\ 100 * c.num * c.num > 49 * c.den2

\* k is r rounded to 3 decimals, in thousandths: |1000 r - k| <= 1/2
RoundedTo3(c, k) ==
    LET m == IF k < 0 THEN 0 - k ELSE k
    IN  /\ (k < 0) = (c.num < 0)
        /\ (2 * m - 1) * (2 * m - 1) * c.den2 <= 4000000 * c.num * c.num
        /\ 4000000 * c.num * c.num <= (2 * m + 1) * (2 * m + 1) * c.den2

UniqueValueCounts ==
    IF "unique_value_counts" \in DOMAIN result.report
    THEN result.report.unique_value_counts ELSE NoSections

\* two rows hold the same value in the column
HasRepeatedValue(col) ==
    \E i, k \in 1..Len(col) : i < k /\ ~IsNull(col[i]) /\ col[i] = col[k]

DistinctValues(col) == {col[i] : i \in {k \in 1..Len(col) : ~IsNull(col[k])}}

\* C10: at tier statistical or correlation a column is listed in
\* unique_value_counts, with the number of its distinct values, exactly when some
\* value occurs in it more than once; a column whose values all differ is left
\* out, also when some of its values are missing.
C10_UniqueValueCounts ==
    (Reported("statistical") \/ Reported("correlation")) =>
        \A j \in 1..Len(ReportedFrame.columns) :
            IF HasRepeatedValue(Column(ReportedFrame, j))
            THEN /\ ReportedFrame.columns[j] \in DOMAIN UniqueValueCounts
                 /\ UniqueValueCounts[ReportedFrame.columns[j]] =
                        Cardinality(DistinctValues(Column(ReportedFrame, j)))
            ELSE ReportedFrame.columns[j] \notin DOMAIN UniqueValueCounts

----------------------------------------------------------------------------
(* Claims about the registry (Spec) *)

\* the import_file call a tool call makes: analyze_data_file(file_path) calls
\* import_file(file_path) with the default arguments
ImportOf(c) ==
    IF c.op = "analyze_data_file"
    THEN [op |-> "import_file", file_path |-> c.file_path, table_name |-> <<>>,
          db_name |-> "default", sheet_name |-> "", encoding |-> ""]
    ELSE c

\* the file is there, its extension is supported and it loads: the call gets to
\* get_or_create_db and to_sql
ReachesPersist(c) ==
    /\ c.file_path \in DOMAIN fs
    /\ LoadFile(fs[c.file_path], lower(Suffix(c.file_path)), c.sheet_name,
                c.encoding).kind = "ok"

ImportFailed(c, r) ==
    IF c.op = "analyze_data_file" THEN r.message = "import_failed"
    ELSE r.status = "error"

\* C11: only import_file adds a store, and only after the file was found and
\* loaded.  A call of list_tables, describe_table, execute_sql,
\* generate_analysis_report, export_query_result or clean_database leaves the
\* set of store names as it was; an import_file call (also the one made by
\* analyze_data_file) whose file is missing, unsupported or fails to load
\* returns an error and leaves the whole registry as it was; an import_file call
\* that gets to the persist step makes its store name known, and no other.
C11_StoreCreation ==
    [][/\ call'.op \in StoreOps => DOMAIN db_connections' = DOMAIN db_connections
       /\ call'.op \in {"import_file", "analyze_data_file"} =>
              IF ReachesPersist(ImportOf(call'))
              THEN DOMAIN db_connections' =
                      (DOMAIN db_connections) \cup {ImportOf(call').db_name}
              ELSE /\ ImportFailed(call', result')
                   /\ db_connections' = db_connections]_vars

\* a failed import that named store "other" left it unknown, next to a known store
C11_Witness ==
    /\ call.op = "import_file"
    /\ call.db_name = "other"
    /\ ~ReachesPersist(call)
    /\ result.status = "error"
    /\ DOMAIN db_connections = {"default"}
====
